---- MODULE Spec2Model ----
(***************************************************************************)
(* AIModelRouter (src/src/model_router.py): weighted endpoint selection,   *)
(* the per-endpoint circuit breaker, the retry/backoff loop of inference,  *)
(* metrics, the response cache and the health_check sweep.                 *)
(*                                                                         *)
(* The router runs on one asyncio event loop: code between two awaits that *)
(* really suspend is one atomic step.  The suspension points are the       *)
(* transport call (lines 269-273), the backoff sleep (line 298) and the    *)
(* health probe (line 365).  `async with self.metrics_lock` (line 133)     *)
(* never suspends: the lock is only held over code without an await, so it *)
(* is always free when it is acquired.                                     *)
(*                                                                         *)
(* sha256 is taken to be collision free: a cache key is the byte string    *)
(* fed to the hasher.                                                      *)
(*                                                                         *)
(* Latencies (total_latency, average_latency) and the timestamp of a cache *)
(* entry are written and never read by the router; they are left out.      *)
(***************************************************************************)
EXTENDS Integers, Sequences, FiniteSets, TLC

VARIABLES
    config,             \* self.config, fixed at construction
    now,                \* time.time()
    circuit_states,     \* self.circuit_states
    failure_counts,     \* self.failure_counts
    last_failure_time,  \* self.last_failure_time
    metrics,            \* self.metrics
    cache,              \* self.cache
    calls,              \* the inference coroutines, one per slot
    hc,                 \* the health_check coroutine
    started,            \* number of inference calls issued so far
    budget,             \* number of inference calls the callers issue in all
    served,             \* requests for which a call returned a provider response
    held                \* what the last get_metrics() returned, as its caller holds it

vars == <<config, now, circuit_states, failure_counts, last_failure_time,
          metrics, cache, calls, hc, started, budget, served, held>>

-----------------------------------------------------------------------------
(* Bounds of the model *)

NumSlots == 2
MaxCalls == 3
DeepCalls == 4
MaxTime == 4
MaxAttempts == 2
MaxThreshold == 2
RecoveryTimeout == 1

(* RetryConfig.backoff_factor *)
BackoffFactor == 2

Slots == 1..NumSlots

-----------------------------------------------------------------------------
(* Configuration *)

EndpointConfig(n, t, w) == [name |-> n, type |-> t, weight |-> w]

NoEndpoint == EndpointConfig("none", "none", 0)

EndpointLists ==
    { << EndpointConfig("e1", "http", 1) >>,
      << EndpointConfig("e1", "http", 0), EndpointConfig("e2", "websocket", 1) >>,
      << EndpointConfig("e1", "http", 0), EndpointConfig("e2", "grpc", 0) >> }

AIModelRouterConfig ==
    [ endpoints : EndpointLists,
      max_attempts : 1..MaxAttempts,
      backoff_factor : {BackoffFactor},
      failure_threshold : 1..MaxThreshold,
      recovery_timeout : {RecoveryTimeout} ]

Range(s) == { s[i] : i \in DOMAIN s }

EndpointNames == { ep.name : ep \in Range(config.endpoints) }

EndpointByName(n) == CHOOSE ep \in Range(config.endpoints) : ep.name = n

-----------------------------------------------------------------------------
(* Requests, responses, cache keys *)

Request(mt, d, md) == [model_type |-> mt, data |-> d, metadata |-> md]

NoRequest == Request("", "", {})

Requests ==
    { Request("stt", "X", {}),
      Request("st", "tX", {}),
      Request("stt", "X", {<<"endpoint_pref", "e2">>}) }

Responses == { [result |-> "a"], [result |-> "b"] }

NoResult == [none |-> TRUE]

ErrUnavailable == [error |-> "All endpoints are unavailable."]

ErrExhausted == [error |-> "Request failed after multiple retries."]

(* sorted(metadata.items()): the keys in alphabetical order *)
KeyOrder == << "endpoint_pref", "lang" >>

RECURSIVE ItemsStr(_, _, _)
ItemsStr(md, i, first) ==
    IF i > Len(KeyOrder) THEN ""
    ELSE LET here == { kv \in md : kv[1] = KeyOrder[i] }
         IN  IF here = {} THEN ItemsStr(md, i + 1, first)
             ELSE LET kv == CHOOSE x \in here : TRUE
                  IN  (IF first THEN "" ELSE ", ")
                      \o "('" \o kv[1] \o "', '" \o kv[2] \o "')"
                      \o ItemsStr(md, i + 1, FALSE)

SortedItemsStr(md) == "[" \o ItemsStr(md, 1, TRUE) \o "]"

_get_cache_key(model_type, data, metadata) ==
    model_type \o data \o (IF metadata # {} THEN SortedItemsStr(metadata) ELSE "")

CacheKey(r) == _get_cache_key(r.model_type, r.data, r.metadata)

HasPref(r) == \E kv \in r.metadata : kv[1] = "endpoint_pref"

PrefName(r) == (CHOOSE kv \in r.metadata : kv[1] = "endpoint_pref")[2]

-----------------------------------------------------------------------------
(* Metrics *)

ZeroMetrics == [ request_count |-> 0, success_count |-> 0, error_count |-> 0 ]

(* _update_metrics without its else branch: a failure is not counted *)
UpdateMetricsNoError(m, endpoint_name, success) ==
    LET old == m[endpoint_name]
    IN  [ m EXCEPT ![endpoint_name] =
            [ request_count |-> old.request_count + 1,
              success_count |-> IF success THEN old.success_count + 1
                                ELSE old.success_count,
              error_count   |-> old.error_count ] ]

(* _update_metrics writing back counters computed from the metrics as they *)
(* were at construction: the updates of other calls are lost               *)
UpdateMetricsLost(m, endpoint_name, success) ==
    [ m EXCEPT ![endpoint_name] =
        [ request_count |-> ZeroMetrics.request_count + 1,
          success_count |-> IF success THEN ZeroMetrics.success_count + 1
                            ELSE ZeroMetrics.success_count,
          error_count   |-> IF success THEN ZeroMetrics.error_count
                            ELSE ZeroMetrics.error_count + 1 ] ]

_update_metrics(m, endpoint_name, success) ==
    LET old == m[endpoint_name]
    IN  [ m EXCEPT ![endpoint_name] =
            [ request_count |-> old.request_count + 1,
              success_count |-> IF success THEN old.success_count + 1
                                ELSE old.success_count,
              error_count   |-> IF success THEN old.error_count
                                ELSE old.error_count + 1 ] ]

(* A value held by a caller of get_metrics: `ref` names the object the      *)
(* caller's reference points to, at_return is what that object contained   *)
(* when get_metrics returned.                                              *)
NotHeld == [ ref |-> "none", at_return |-> << >> ]

(* get_metrics (lines 127-129) returns self.metrics, the dictionary the    *)
(* router keeps updating, not a new object.                                *)
get_metrics == [ ref |-> "self.metrics", at_return |-> metrics ]

(* what the caller reads through the reference it holds *)
HeldCounters ==
    IF held.ref = "self.metrics" THEN metrics ELSE held.at_return

-----------------------------------------------------------------------------
(* Circuit breaker: the three dictionaries as one record *)

CB == [ circuit_states    |-> circuit_states,
        failure_counts    |-> failure_counts,
        last_failure_time |-> last_failure_time ]

_trip_circuit(cb, endpoint_name) ==
    [ cb EXCEPT !.circuit_states[endpoint_name] = "open",
                !.last_failure_time[endpoint_name] = now ]

(* _reset_circuit without effect *)
ResetCircuitNever(cb, endpoint_name) == cb

_reset_circuit(cb, endpoint_name) ==
    IF cb.circuit_states[endpoint_name] # "closed"
    THEN [ cb EXCEPT !.circuit_states[endpoint_name] = "closed",
                     !.failure_counts[endpoint_name] = 0 ]
    ELSE cb

(* the threshold test of lines 309-312 as > instead of >= *)
HandleFailureAbove(cb, endpoint_name) ==
    IF cb.circuit_states[endpoint_name] = "closed"
    THEN LET cb1 == [ cb EXCEPT !.failure_counts[endpoint_name] = @ + 1 ]
         IN  IF cb1.failure_counts[endpoint_name] > config.failure_threshold
             THEN _trip_circuit(cb1, endpoint_name)
             ELSE cb1
    ELSE IF cb.circuit_states[endpoint_name] = "half-open"
    THEN _trip_circuit(cb, endpoint_name)
    ELSE cb

_handle_failure(cb, endpoint_name) ==
    IF cb.circuit_states[endpoint_name] = "closed"
    THEN LET cb1 == [ cb EXCEPT !.failure_counts[endpoint_name] = @ + 1 ]
         IN  IF cb1.failure_counts[endpoint_name] >= config.failure_threshold
             THEN _trip_circuit(cb1, endpoint_name)
             ELSE cb1
    ELSE IF cb.circuit_states[endpoint_name] = "half-open"
    THEN _trip_circuit(cb, endpoint_name)
    ELSE cb

SetCB(cb) ==
    /\ circuit_states' = cb.circuit_states
    /\ failure_counts' = cb.failure_counts
    /\ last_failure_time' = cb.last_failure_time

-----------------------------------------------------------------------------
(* Selector *)

(* the circuit state left out of the filter of lines 166-171 *)
ActiveEndpointsAnyState(cs, exclude_names) ==
    SelectSeq(config.endpoints, LAMBDA ep : \A i \in DOMAIN exclude_names :
                                                exclude_names[i] # ep.name)

(* _select_endpoint without the exclude_names test of line 170 *)
ActiveEndpointsNoExclude(cs, exclude_names) ==
    SelectSeq(config.endpoints, LAMBDA ep : cs[ep.name] # "open")

(* `endpoint.name not in exclude_names` (line 170) always true *)
InListNever(n, names) == FALSE

InList(n, names) == \E i \in DOMAIN names : names[i] = n

ActiveEndpoints(cs, exclude_names) ==
    SelectSeq(config.endpoints,
              LAMBDA ep : cs[ep.name] # "open" /\ ~InList(ep.name, exclude_names))

RECURSIVE SumWeights(_, _)
SumWeights(eps, i) ==
    IF i > Len(eps) THEN 0 ELSE eps[i].weight + SumWeights(eps, i + 1)

(* the loop of lines 180-185 for one drawn value *)
RECURSIVE WalkWeights(_, _, _, _)
WalkWeights(eps, i, current_weight, selection) ==
    IF i > Len(eps) THEN NoEndpoint
    ELSE IF current_weight + eps[i].weight >= selection THEN eps[i]
    ELSE WalkWeights(eps, i + 1, current_weight + eps[i].weight, selection)

(* Every endpoint _select_endpoint can return.  random.uniform(0, w) lies  *)
(* in [0, w]; the integers 0..w give every outcome of the walk, since any  *)
(* draw strictly between two cumulative weights selects as the upper one.  *)
_select_endpoint(cs, exclude_names) ==
    LET active_endpoints == ActiveEndpoints(cs, exclude_names)
        total_weight == SumWeights(active_endpoints, 1)
    IN  IF active_endpoints = << >> THEN { NoEndpoint }
        ELSE IF total_weight = 0 THEN Range(active_endpoints)
        ELSE { WalkWeights(active_endpoints, 1, 0, selection) :
                 selection \in 0..total_weight }

-----------------------------------------------------------------------------
(* The inference coroutine *)

IdleCall ==
    [ pc |-> "idle", req |-> NoRequest, attempts |-> 0, tried |-> << >>,
      endpoint |-> "none", wake |-> 0, sleeps |-> << >>,
      result |-> NoResult, path |-> "none", exc |-> "none" ]

(* A call that has returned or raised is visible in the state its last step *)
(* ends in; the next step of the system finds its slot free again.          *)
Finished(rec) == rec.pc \in { "done", "raised" }

Live == [ c \in Slots |-> IF Finished(calls[c]) THEN IdleCall ELSE calls[c] ]

(* slots are interchangeable: a new call takes the first free one *)
FirstFree(c) ==
    /\ Live[c].pc = "idle"
    /\ \A d \in Slots : d < c => Live[d].pc # "idle"

SupportedTypes == { "http", "websocket" }

(* a handler that catches transport errors only *)
IsCaughtTransportOnly(exc) == exc = "ClientError"

(* `except Exception` (line 288): asyncio.CancelledError derives from *)
(* BaseException and passes through it.                               *)
IsCaught(exc) == exc # "CancelledError"

(* the exponent counted from 0 instead of 1 *)
BackoffTimeFromZero(attempts) == config.backoff_factor ^ (attempts - 1)

(* backoff_time (line 296) *)
BackoffTime(attempts) == config.backoff_factor ^ attempts

Returned(rec, value, how) ==
    [ rec EXCEPT !.pc = "done", !.result = value, !.path = how,
                 !.endpoint = "none", !.wake = 0 ]

Raised(rec, exc) ==
    [ IdleCall EXCEPT !.pc = "raised", !.exc = exc ]

(* the loop test of line 295 off by one: a sleep and one more iteration *)
(* after the last allowed failure                                       *)
AfterFailureOneMore(rec) ==
    LET attempts == rec.attempts + 1
        rec1 == [ rec EXCEPT !.attempts = attempts ]
    IN  IF attempts <= config.max_attempts
        THEN [ rec1 EXCEPT !.pc = "sleep",
                           !.wake = now + BackoffTime(attempts),
                           !.sleeps = Append(@, BackoffTime(attempts)),
                           !.endpoint = "none" ]
        ELSE [ rec1 EXCEPT !.pc = "done", !.result = ErrExhausted,
                           !.path = "exhausted", !.endpoint = "none", !.wake = 0 ]

(* lines 294-303: count the attempt, then sleep or leave the loop *)
AfterFailure(rec) ==
    LET attempts == rec.attempts + 1
        rec1 == [ rec EXCEPT !.attempts = attempts ]
    IN  IF attempts < config.max_attempts
        THEN [ rec1 EXCEPT !.pc = "sleep",
                           !.wake = now + BackoffTime(attempts),
                           !.sleeps = Append(@, BackoffTime(attempts)),
                           !.endpoint = "none" ]
        ELSE Returned(rec1, ErrExhausted, "exhausted")

(* lines 288-298: an exception raised inside the try block *)
OnException(c, rec, exc) ==
    IF IsCaught(exc)
    THEN /\ metrics' = _update_metrics(metrics, rec.endpoint, FALSE)
         /\ SetCB(_handle_failure(CB, rec.endpoint))
         /\ calls' = [ Live EXCEPT ![c] = AfterFailure(rec) ]
    ELSE /\ calls' = [ Live EXCEPT ![c] = Raised(rec, exc) ]
         /\ UNCHANGED <<metrics, circuit_states, failure_counts, last_failure_time>>

(* endpoint_pref consulted on every iteration, not only when attempts == 0 *)
ChooseEndpointPrefAlways(rec) ==
    LET r == rec.req
        preferred ==
            IF HasPref(r) /\ PrefName(r) \in EndpointNames
            THEN EndpointByName(PrefName(r))
            ELSE NoEndpoint
    IN  IF preferred # NoEndpoint THEN { preferred }
        ELSE _select_endpoint(circuit_states, rec.tried)

(* lines 242-254: the endpoints one loop iteration may choose *)
ChooseEndpoint(rec) ==
    LET r == rec.req
        preferred ==
            IF rec.attempts = 0 /\ HasPref(r) /\ PrefName(r) \in EndpointNames
            THEN EndpointByName(PrefName(r))
            ELSE NoEndpoint
    IN  IF preferred # NoEndpoint THEN { preferred }
        ELSE _select_endpoint(circuit_states, rec.tried)

(* lines 256-275: one loop iteration up to its first suspension *)
Attempt(c, rec, endpoint) ==
    IF endpoint = NoEndpoint
    THEN /\ calls' = [ Live EXCEPT ![c] = Returned(rec, ErrUnavailable, "unavailable") ]
         /\ UNCHANGED <<metrics, circuit_states, failure_counts, last_failure_time>>
    ELSE LET rec1 == [ rec EXCEPT !.tried = Append(@, endpoint.name),
                                  !.endpoint = endpoint.name ]
         IN  IF endpoint.type \in SupportedTypes
             THEN /\ calls' = [ Live EXCEPT ![c] = [ rec1 EXCEPT !.pc = "transport" ] ]
                  /\ UNCHANGED <<metrics, circuit_states, failure_counts,
                                 last_failure_time>>
             ELSE OnException(c, rec1, "ValueError")

CacheHit(key) == key \in DOMAIN cache

(* the cache written with the router's own error result *)
CacheWriteError(key, response) ==
    [ k \in DOMAIN cache \cup {key} |->
        IF k = key THEN [ response |-> ErrExhausted ] ELSE cache[k] ]

(* the cache write of line 284 left out *)
CacheWriteDropped(key, response) == cache

CacheWrite(key, response) ==
    [ k \in DOMAIN cache \cup {key} |->
        IF k = key THEN [ response |-> response ] ELSE cache[k] ]

(* inference(model_type, data, metadata) up to its first suspension *)
Inference(c, r) ==
    /\ FirstFree(c)
    /\ started < budget
    /\ started' = started + 1
    /\ LET rec == [ IdleCall EXCEPT !.req = r ]
       IN  IF CacheHit(CacheKey(r))
           THEN /\ calls' = [ Live EXCEPT ![c] =
                                Returned(rec, cache[CacheKey(r)].response, "cache") ]
                /\ served' = served \cup {r}
                /\ UNCHANGED <<metrics, circuit_states, failure_counts,
                               last_failure_time>>
           ELSE /\ \E endpoint \in ChooseEndpoint(rec) : Attempt(c, rec, endpoint)
                /\ UNCHANGED served
    /\ UNCHANGED <<config, now, cache, hc, budget, held>>

(* the transport call returns a response: lines 277-286 *)
TransportSuccess(c, response) ==
    /\ calls[c].pc = "transport"
    /\ metrics' = _update_metrics(metrics, calls[c].endpoint, TRUE)
    /\ SetCB(_reset_circuit(CB, calls[c].endpoint))
    /\ cache' = CacheWrite(CacheKey(calls[c].req), response)
    /\ calls' = [ Live EXCEPT ![c] = Returned(calls[c], response, "transport") ]
    /\ served' = served \cup { calls[c].req }
    /\ UNCHANGED <<config, now, hc, started, budget, held>>

(* the transport call raises: lines 288-298 *)
TransportFailure(c) ==
    /\ calls[c].pc = "transport"
    /\ OnException(c, calls[c], "ClientError")
    /\ UNCHANGED <<config, now, cache, hc, started, budget, served, held>>

(* asyncio.sleep returns (line 298): the next loop iteration *)
Wake(c) ==
    /\ calls[c].pc = "sleep"
    /\ now >= calls[c].wake
    /\ LET rec == [ calls[c] EXCEPT !.wake = 0 ]
       IN  \E endpoint \in ChooseEndpoint(rec) : Attempt(c, rec, endpoint)
    /\ UNCHANGED <<config, now, cache, hc, started, budget, served, held>>

(* the caller cancels the task while it is suspended *)
Cancel(c) ==
    /\ calls[c].pc \in { "transport", "sleep" }
    /\ OnException(c, calls[c], "CancelledError")
    /\ UNCHANGED <<config, now, cache, hc, started, budget, served, held>>

-----------------------------------------------------------------------------
(* health_check *)

Snapshot(cb) ==
    [ n \in EndpointNames |->
        [ state |-> cb.circuit_states[n], failures |-> cb.failure_counts[n] ] ]

(* The loop of lines 351-370 from endpoint i on, up to the first probe    *)
(* that suspends.  _check_endpoint_health awaits for http and websocket   *)
(* endpoints only; for any other type it returns False at once.           *)
RECURSIVE Sweep(_, _)
(* the sweep with the timeout test of line 355 as >= instead of > *)
SweepAtTimeout(i, cb) ==
    IF i > Len(config.endpoints) THEN [ cb |-> cb, probe |-> 0 ]
    ELSE LET ep  == config.endpoints[i]
             cb1 == IF /\ cb.circuit_states[ep.name] = "open"
                       /\ now - cb.last_failure_time[ep.name] >= config.recovery_timeout
                    THEN [ cb EXCEPT !.circuit_states[ep.name] = "half-open" ]
                    ELSE cb
         IN  IF cb1.circuit_states[ep.name] = "half-open"
             THEN IF ep.type \in SupportedTypes
                  THEN [ cb |-> cb1, probe |-> i ]
                  ELSE Sweep(i + 1, _trip_circuit(cb1, ep.name))
             ELSE Sweep(i + 1, cb1)

Sweep(i, cb) ==
    IF i > Len(config.endpoints) THEN [ cb |-> cb, probe |-> 0 ]
    ELSE LET ep  == config.endpoints[i]
             cb1 == IF /\ cb.circuit_states[ep.name] = "open"
                       /\ now - cb.last_failure_time[ep.name] > config.recovery_timeout
                    THEN [ cb EXCEPT !.circuit_states[ep.name] = "half-open" ]
                    ELSE cb
         IN  IF cb1.circuit_states[ep.name] = "half-open"
             THEN IF ep.type \in SupportedTypes
                  THEN [ cb |-> cb1, probe |-> i ]
                  ELSE Sweep(i + 1, _trip_circuit(cb1, ep.name))
             ELSE Sweep(i + 1, cb1)

Continue(s) ==
    /\ SetCB(s.cb)
    /\ hc' = IF s.probe = 0
             THEN [ pc |-> "idle", idx |-> 0 ]
             ELSE [ pc |-> "probing", idx |-> s.probe ]

HealthCheck ==
    /\ hc.pc = "idle"
    /\ Continue(Sweep(1, CB))
    /\ calls' = Live
    /\ UNCHANGED <<config, now, metrics, cache, started, budget, served, held>>

ProbeReturn(is_healthy) ==
    /\ hc.pc = "probing"
    /\ LET n == config.endpoints[hc.idx].name
       IN  Continue(Sweep(hc.idx + 1,
                          IF is_healthy THEN _reset_circuit(CB, n)
                          ELSE _trip_circuit(CB, n)))
    /\ calls' = Live
    /\ UNCHANGED <<config, now, metrics, cache, started, budget, served, held>>

-----------------------------------------------------------------------------
(* The clock *)

Tick ==
    /\ now < MaxTime
    /\ now' = now + 1
    /\ calls' = Live
    /\ UNCHANGED <<config, circuit_states, failure_counts, last_failure_time,
                   metrics, cache, hc, started, budget, served, held>>

-----------------------------------------------------------------------------

Constructed ==
    /\ now = 1
    /\ circuit_states = [ n \in EndpointNames |-> "closed" ]
    /\ failure_counts = [ n \in EndpointNames |-> 0 ]
    /\ last_failure_time = [ n \in EndpointNames |-> 0 ]
    /\ metrics = [ n \in EndpointNames |-> ZeroMetrics ]
    /\ cache = [ k \in {} |-> NoResult ]
    /\ calls = [ c \in Slots |-> IdleCall ]
    /\ hc = [ pc |-> "idle", idx |-> 0 ]
    /\ started = 0
    /\ served = {}
    /\ held = NotHeld

Init ==
    /\ config \in AIModelRouterConfig
    /\ budget = MaxCalls
    /\ Constructed

(* One http endpoint, failure_threshold 2: a longer run of calls *)
InitDeep ==
    /\ config = [ endpoints |-> << EndpointConfig("e1", "http", 1) >>,
                  max_attempts |-> MaxAttempts,
                  backoff_factor |-> BackoffFactor,
                  failure_threshold |-> MaxThreshold,
                  recovery_timeout |-> RecoveryTimeout ]
    /\ budget = DeepCalls
    /\ Constructed

Next ==
    \/ \E c \in Slots, r \in Requests : Inference(c, r)
    \/ \E c \in Slots, response \in Responses : TransportSuccess(c, response)
    \/ \E c \in Slots : TransportFailure(c)
    \/ \E c \in Slots : Wake(c)
    \/ \E c \in Slots : Cancel(c)
    \/ HealthCheck
    \/ \E is_healthy \in BOOLEAN : ProbeReturn(is_healthy)
    \/ Tick

Spec == Init /\ [][Next]_vars

SpecDeep == InitDeep /\ [][Next]_vars

(* asyncio.gather over NumSlots inference calls with pairwise distinct     *)
(* requests against one endpoint whose transport always succeeds           *)
(* (test_concurrent_requests).  The calls run concurrently: gather runs    *)
(* every task up to its first await, so all of them are in flight before   *)
(* any transport call completes; the completions come in any order.        *)
InitConc ==
    /\ config = [ endpoints |-> << EndpointConfig("e1", "http", 1) >>,
                  max_attempts |-> MaxAttempts,
                  backoff_factor |-> BackoffFactor,
                  failure_threshold |-> MaxThreshold,
                  recovery_timeout |-> RecoveryTimeout ]
    /\ budget = NumSlots
    /\ Constructed

GatherStart(c, r) ==
    /\ \A d \in Slots : calls[d].pc = "transport" => calls[d].req # r
    /\ Inference(c, r)

GatherReturn(c, response) ==
    /\ started = budget
    /\ TransportSuccess(c, response)

NextConc ==
    \/ \E c \in Slots, r \in Requests : GatherStart(c, r)
    \/ \E c \in Slots, response \in Responses : GatherReturn(c, response)
    \/ HealthCheck
    \/ Tick

SpecConc == InitConc /\ [][NextConc]_vars

(* a caller asks for the metrics *)
CallGetMetrics ==
    /\ held' = get_metrics
    /\ calls' = Live
    /\ UNCHANGED <<config, now, circuit_states, failure_counts, last_failure_time,
                   metrics, cache, hc, started, budget, served>>

(* The router with a caller that reads the metrics between the calls: one  *)
(* endpoint, NumSlots inference calls.                                     *)
NextObs ==
    \/ Next
    \/ CallGetMetrics

SpecObs == InitConc /\ [][NextObs]_vars

(* health_check invoked again and again while time advances, with probes   *)
(* and transport calls that stop failing from SettleTime on.  The clock of *)
(* the model stops at LiveMaxTime, so the last failure comes early enough  *)
(* for recovery_timeout to elapse after it.                                *)
LiveMaxTime == MaxTime + 2

SettleTime == LiveMaxTime - RecoveryTimeout

LiveNames == { "e1", "e2" }

InitLive ==
    /\ config = [ endpoints |-> << EndpointConfig("e1", "http", 0),
                                   EndpointConfig("e2", "websocket", 1) >>,
                  max_attempts |-> MaxAttempts,
                  backoff_factor |-> BackoffFactor,
                  failure_threshold |-> 1,
                  recovery_timeout |-> RecoveryTimeout ]
    /\ budget = NumSlots
    /\ Constructed

FailureLive(c) ==
    /\ now < SettleTime
    /\ TransportFailure(c)

ProbeLive(is_healthy) ==
    /\ is_healthy \/ now < SettleTime
    /\ ProbeReturn(is_healthy)

TickLive ==
    /\ now < LiveMaxTime
    /\ now' = now + 1
    /\ calls' = Live
    /\ UNCHANGED <<config, circuit_states, failure_counts, last_failure_time,
                   metrics, cache, hc, started, budget, served, held>>

NextLive ==
    \/ \E c \in Slots, r \in Requests : Inference(c, r)
    \/ \E c \in Slots, response \in Responses : TransportSuccess(c, response)
    \/ \E c \in Slots : FailureLive(c)
    \/ \E c \in Slots : Wake(c)
    \/ \E c \in Slots : Cancel(c)
    \/ HealthCheck
    \/ \E is_healthy \in BOOLEAN : ProbeLive(is_healthy)
    \/ TickLive

SpecLive ==
    /\ InitLive
    /\ [][NextLive]_vars
    /\ WF_vars(HealthCheck)
    /\ WF_vars(\E is_healthy \in BOOLEAN : ProbeLive(is_healthy))
    /\ WF_vars(TickLive)

-----------------------------------------------------------------------------
(* Properties *)

(* the endpoints _select_endpoint() can return in the current state *)
Selectable(n) == \E ep \in _select_endpoint(circuit_states, << >>) : ep.name = n

(* C1: in every reachable state, whatever inference calls and health_check *)
(* sweeps have run and however they interleaved, every endpoint's metrics  *)
(* satisfy request_count = success_count + error_count.                    *)
C1_CountsAddUp ==
    \A n \in EndpointNames :
        metrics[n].request_count = metrics[n].success_count + metrics[n].error_count

C1_Witness ==
    /\ hc.pc = "probing"
    /\ \E n \in EndpointNames :
          metrics[n].success_count >= 1 /\ metrics[n].error_count >= 1

(* C2, first half: a failed dispatch that brings a CLOSED endpoint's       *)
(* failure count to failure_threshold opens its circuit and records        *)
(* last_failure_time.                                                      *)
C2_TripsAtThreshold ==
    [][ \A n \in EndpointNames :
          ( /\ circuit_states[n] = "closed"
            /\ failure_counts'[n] # failure_counts[n]
            /\ failure_counts'[n] >= config.failure_threshold )
          => ( circuit_states'[n] = "open" /\ last_failure_time'[n] = now ) ]_vars

(* C2, second half: from the trip on, _select_endpoint never returns the   *)
(* endpoint until recovery_timeout has elapsed since last_failure_time.    *)
(* last_failure_time is 0 until the first trip, and the clock starts at 1. *)
C2_ExcludedUntilTimeout ==
    \A n \in EndpointNames :
        ( last_failure_time[n] > 0
          /\ now - last_failure_time[n] <= config.recovery_timeout )
        => ~Selectable(n)

(* C2: when failed dispatches bring a CLOSED endpoint's failure count to   *)
(* failure_threshold its circuit becomes OPEN with last_failure_time       *)
(* recorded, and from then on _select_endpoint never returns that endpoint *)
(* until recovery_timeout has elapsed since last_failure_time.             *)
C2_OpenExcludesUntilTimeout == C2_TripsAtThreshold /\ []C2_ExcludedUntilTimeout

(* C3: after any successful dispatch to an endpoint, that endpoint's       *)
(* failure count is 0 and its circuit is CLOSED, whatever they were before *)
(* the dispatch.                                                           *)
C3_SuccessResets ==
    [][ \A c \in Slots, response \in Responses :
          TransportSuccess(c, response)
          => ( /\ circuit_states'[calls[c].endpoint] = "closed"
               /\ failure_counts'[calls[c].endpoint] = 0 ) ]_vars

(* a step of the health_check coroutine, and the endpoints its loop visits *)
HCStep == HealthCheck \/ \E is_healthy \in BOOLEAN : ProbeReturn(is_healthy)

Visited(i) ==
    /\ i >= (IF hc.pc = "idle" THEN 1 ELSE hc.idx + 1)
    /\ i <= (IF hc'.pc = "probing" THEN hc'.idx ELSE Len(config.endpoints))

Probed == config.endpoints[hc.idx].name

(* C4, promotion: health_check, reaching an OPEN endpoint strictly more    *)
(* than recovery_timeout after last_failure_time, moves it to HALF_OPEN    *)
(* and probes it (an endpoint of unsupported type fails its probe at once).*)
C4_PromotesAndProbes ==
    [][ HCStep =>
        \A i \in DOMAIN config.endpoints :
          LET ep == config.endpoints[i] IN
          ( /\ Visited(i)
            /\ circuit_states[ep.name] = "open"
            /\ now - last_failure_time[ep.name] > config.recovery_timeout )
          => IF ep.type \in SupportedTypes
             THEN /\ hc'.pc = "probing" /\ hc'.idx = i
                  /\ circuit_states'[ep.name] = "half-open"
             ELSE /\ circuit_states'[ep.name] = "open"
                  /\ last_failure_time'[ep.name] = now ]_vars

(* C4, successful probe: the endpoint is left CLOSED with failure count 0 *)
C4_ProbeSuccessCloses ==
    [][ ProbeReturn(TRUE) =>
          /\ circuit_states'[Probed] = "closed"
          /\ failure_counts'[Probed] = 0 ]_vars

(* C4, failed probe: the endpoint is left OPEN, last_failure_time refreshed *)
C4_ProbeFailureReopens ==
    [][ ProbeReturn(FALSE) =>
          /\ circuit_states'[Probed] = "open"
          /\ last_failure_time'[Probed] = now ]_vars

(* C4, too early: health_check, reaching an OPEN endpoint no more than     *)
(* recovery_timeout after last_failure_time, leaves it OPEN, unprobed.     *)
C4_EarlySweepLeavesOpen ==
    [][ HCStep =>
        \A i \in DOMAIN config.endpoints :
          LET ep == config.endpoints[i] IN
          ( /\ Visited(i)
            /\ circuit_states[ep.name] = "open"
            /\ now - last_failure_time[ep.name] <= config.recovery_timeout )
          => /\ circuit_states'[ep.name] = "open"
             /\ last_failure_time'[ep.name] = last_failure_time[ep.name]
             /\ ~(hc'.pc = "probing" /\ hc'.idx = i) ]_vars

(* C4: for an OPEN endpoint, a health_check run strictly more than         *)
(* recovery_timeout after last_failure_time moves it to HALF_OPEN and      *)
(* probes it; a successful probe leaves it CLOSED with failure count 0, a  *)
(* failed probe leaves it OPEN with last_failure_time refreshed, so that a *)
(* further health_check before another recovery_timeout has elapsed leaves *)
(* it OPEN without probing; a health_check run no more than                *)
(* recovery_timeout after last_failure_time leaves an OPEN endpoint OPEN.  *)
C4_HealthCheckRecovery ==
    /\ C4_PromotesAndProbes
    /\ C4_ProbeSuccessCloses
    /\ C4_ProbeFailureReopens
    /\ C4_EarlySweepLeavesOpen

(* C5: once an inference call has returned a provider response for a      *)
(* request (model_type, data, metadata), every later inference call with   *)
(* the identical triple returns the response the cache holds for that      *)
(* fingerprint, without a transport call and without changing metrics,     *)
(* circuit state or cache.                                                 *)
C5_CachedReplay ==
    [][ \A c \in Slots, r \in Requests :
          ( Inference(c, r) /\ r \in served )
          => /\ CacheHit(CacheKey(r))
             /\ calls'[c].pc = "done"
             /\ calls'[c].path = "cache"
             /\ calls'[c].result = cache[CacheKey(r)].response
             /\ calls'[c].tried = << >>
             /\ UNCHANGED <<metrics, circuit_states, failure_counts,
                            last_failure_time, cache>> ]_vars

C5_Witness ==
    \E c \in Slots :
        /\ calls[c].pc = "done"
        /\ calls[c].path = "cache"
        /\ calls[c].req \in served
        /\ calls[c].result = [result |-> "b"]
        /\ \E n \in EndpointNames : metrics[n].error_count >= 1

(* An attempt is one pass through the try block of lines 262-275: the      *)
(* transport call for the endpoint's type, which for an unsupported type   *)
(* fails at once.  A call's attempts are its tried endpoints.              *)
AllFailed(rec) ==
    /\ rec.pc = "done"
    /\ rec.path \in { "unavailable", "exhausted" }
    /\ Len(rec.tried) >= 1

(* C6 as stated: if every transport attempt made by an inference call      *)
(* fails, the call invokes the transport exactly max_attempts times and    *)
(* returns the retries-exhausted error, for every configuration of         *)
(* endpoints and every max_attempts >= 1.                                  *)
C6_AlwaysExhausts ==
    \A c \in Slots :
        AllFailed(calls[c])
        => /\ Len(calls[c].tried) = config.max_attempts
           /\ calls[c].result = ErrExhausted

(* C6 amended: if every transport attempt made by an inference call fails, *)
(* the call invokes the transport at most max_attempts times; it returns   *)
(* the retries-exhausted error exactly when it made max_attempts attempts, *)
(* and otherwise, no endpoint that is untried and not OPEN being left, the *)
(* total-unavailability error after fewer attempts.                        *)
C6_ExhaustsOrRunsOut ==
    \A c \in Slots :
        AllFailed(calls[c])
        => /\ Len(calls[c].tried) = calls[c].attempts
           /\ calls[c].attempts <= config.max_attempts
           /\ calls[c].attempts = config.max_attempts
                => calls[c].result = ErrExhausted
           /\ calls[c].attempts < config.max_attempts
                => calls[c].result = ErrUnavailable

C6_Witness ==
    \E c \in Slots :
        /\ AllFailed(calls[c])
        /\ calls[c].result = ErrExhausted
        /\ Len(calls[c].tried) = 2

(* C7, the shape of a call when it returns: attempts, tried endpoints and *)
(* backoff sleeps.                                                       *)
C7_Shape ==
    \A c \in Slots :
        LET rec == calls[c] IN
        /\ ( rec.pc = "done" /\ rec.path = "transport" )
           => /\ rec.attempts < config.max_attempts
              /\ rec.result \in Responses
              /\ Len(rec.tried) = rec.attempts + 1
              /\ Len(rec.sleeps) = rec.attempts
              /\ \A i \in DOMAIN rec.sleeps :
                    rec.sleeps[i] = config.backoff_factor ^ i
        /\ ( rec.pc = "done" /\ rec.path = "exhausted" )
           => /\ Len(rec.tried) = config.max_attempts
              /\ Len(rec.sleeps) = config.max_attempts - 1
        /\ rec.pc = "sleep" => rec.attempts < config.max_attempts

(* C7, the successful attempt: its response is what the call returns *)
C7_ReturnsThatResponse ==
    [][ \A c \in Slots, response \in Responses :
          TransportSuccess(c, response)
          => /\ calls'[c].pc = "done"
             /\ calls'[c].result = response
             /\ calls'[c].attempts = calls[c].attempts
             /\ calls'[c].sleeps = calls[c].sleeps ]_vars

(* C7: if the first k transport attempts of an inference call fail         *)
(* (k < max_attempts) and attempt k+1 succeeds, the call returns that      *)
(* success response after exactly k+1 transport invocations and exactly k  *)
(* backoff sleeps, the i-th of duration backoff_factor^i; no sleep follows *)
(* the final failed attempt of a call that exhausts max_attempts.          *)
C7_RetryThenSuccess == []C7_Shape /\ C7_ReturnsThatResponse

C7_Witness ==
    \E c \in Slots :
        /\ calls[c].pc = "done"
        /\ calls[c].path = "transport"
        /\ calls[c].attempts = 1
        /\ calls[c].sleeps = << BackoffFactor >>

(* C10: every inference call that returns yields exactly one of a cached   *)
(* response, the response of a successful transport call of this call, the *)
(* total-unavailability error or the retries-exhausted error; a transport  *)
(* failure, an unsupported endpoint type included, never leaves the call   *)
(* as an exception.                                                        *)
C10_TypedResult ==
    \A c \in Slots :
        LET rec == calls[c] IN
        /\ rec.pc = "raised" => rec.exc = "CancelledError"
        /\ rec.pc = "done"
           => /\ rec.path \in { "cache", "transport", "unavailable", "exhausted" }
              /\ rec.path = "cache"
                   => rec.result \in Responses /\ rec.tried = << >>
              /\ rec.path = "transport"
                   => rec.result \in Responses /\ Len(rec.tried) = rec.attempts + 1
              /\ rec.path = "unavailable" => rec.result = ErrUnavailable
              /\ rec.path = "exhausted" => rec.result = ErrExhausted

C10_Witness ==
    \E c \in Slots :
        /\ calls[c].pc = "done"
        /\ calls[c].path = "exhausted"
        /\ \E i \in DOMAIN calls[c].tried :
              EndpointByName(calls[c].tried[i]).type \notin SupportedTypes

(* C8, first half: with every circuit OPEN, an inference call without     *)
(* endpoint_pref and without a cache hit returns the total-unavailability  *)
(* error without a transport call and without changing metrics, circuit    *)
(* state or cache.                                                         *)
C8_AllOpenUnavailable ==
    [][ \A c \in Slots, r \in Requests :
          ( /\ Inference(c, r)
            /\ \A n \in EndpointNames : circuit_states[n] = "open"
            /\ ~HasPref(r)
            /\ ~CacheHit(CacheKey(r)) )
          => /\ calls'[c].pc = "done"
             /\ calls'[c].result = ErrUnavailable
             /\ calls'[c].tried = << >>
             /\ UNCHANGED <<metrics, circuit_states, failure_counts,
                            last_failure_time, cache>> ]_vars

(* C8, second half: with one endpoint and failure_threshold 2, once two    *)
(* dispatches have failed and none has succeeded the circuit is OPEN, for  *)
(* as long as recovery_timeout has not elapsed since last_failure_time     *)
(* (after that a health_check probe may close it).                         *)
C8_TwoFailuresOpen ==
    \A n \in EndpointNames :
        ( /\ Len(config.endpoints) = 1
          /\ config.failure_threshold = 2
          /\ metrics[n].error_count = 2
          /\ metrics[n].success_count = 0
          /\ now - last_failure_time[n] <= config.recovery_timeout )
        => circuit_states[n] = "open"

(* C8: when every endpoint's circuit is OPEN, an inference call without    *)
(* endpoint_pref and without a cache hit returns "All endpoints are        *)
(* unavailable." without invoking the transport and without changing       *)
(* metrics, circuit state or cache; in particular with one endpoint and    *)
(* failure_threshold 2, after two always-failing inference calls the       *)
(* circuit is OPEN and the third call yields that error.                   *)
C8_UnavailableWhenAllOpen == C8_AllOpenUnavailable /\ []C8_TwoFailuresOpen

C8_Witness ==
    \E c \in Slots :
        /\ Len(config.endpoints) = 1
        /\ config.failure_threshold = 2
        /\ metrics["e1"] = [ request_count |-> 2, success_count |-> 0,
                             error_count |-> 2 ]
        /\ circuit_states["e1"] = "open"
        /\ started = 3
        /\ calls[c].pc = "done"
        /\ calls[c].result = ErrUnavailable
        /\ calls[c].tried = << >>

InFlight(c) == calls[c].pc \in { "transport", "sleep" }

(* C9: for N concurrently running inference calls with pairwise distinct   *)
(* requests against a single always-succeeding endpoint, under every       *)
(* interleaving of their transport suspension points, once all calls have  *)
(* returned the endpoint's metrics report request_count = N,               *)
(* success_count = N and error_count = 0.                                  *)
C9_NoLostUpdates ==
    ( started = budget /\ \A c \in Slots : ~InFlight(c) )
    => \A n \in EndpointNames :
          metrics[n] = [ request_count |-> budget, success_count |-> budget,
                         error_count |-> 0 ]

C9_Witness ==
    /\ started = NumSlots
    /\ \A c \in Slots : ~InFlight(c)
    /\ metrics["e1"].request_count = NumSlots
    /\ Cardinality(DOMAIN cache) >= 2
    /\ now > 1

(* the exclude_names lists inference can pass: names already tried, in order *)
ExcludeLists ==
    { << >> } \cup { << n >> : n \in EndpointNames }
              \cup { << n, m >> : n \in EndpointNames, m \in EndpointNames }

(* C11: _select_endpoint never returns an endpoint of weight 0 while some  *)
(* other candidate has positive weight; a weight-0 endpoint is returned    *)
(* only by the uniform choice taken when all candidate weights are 0.      *)
(* (The code divides nowhere, so there is no division error to rule out.)  *)
C11_ZeroWeightOnlyByFallback ==
    \A exclude_names \in ExcludeLists :
        LET active_endpoints == ActiveEndpoints(circuit_states, exclude_names)
        IN  \A ep \in _select_endpoint(circuit_states, exclude_names) :
                ( ep # NoEndpoint /\ ep.weight = 0 )
                => SumWeights(active_endpoints, 1) = 0

(* C18: _select_endpoint(exclude) never returns an endpoint whose circuit  *)
(* is OPEN or whose name is in exclude, and it returns none if and only if *)
(* no configured endpoint is both non-OPEN and not excluded.               *)
C18_SelectsOnlyCandidates ==
    \A exclude_names \in ExcludeLists :
        LET candidates == { ep \in Range(config.endpoints) :
                              /\ circuit_states[ep.name] # "open"
                              /\ ep.name \notin Range(exclude_names) }
            selected == _select_endpoint(circuit_states, exclude_names)
        IN  /\ selected # {}
            /\ \A ep \in selected : ep # NoEndpoint => ep \in candidates
            /\ NoEndpoint \in selected <=> candidates = {}

C18_Witness ==
    /\ Len(config.endpoints) = 2
    /\ circuit_states["e1"] = "half-open"
    /\ circuit_states["e2"] = "open"
    /\ _select_endpoint(circuit_states, << >>) = { EndpointByName("e1") }
    /\ _select_endpoint(circuit_states, << "e1" >>) = { NoEndpoint }
    /\ \E c \in Slots : calls[c].pc = "transport" /\ calls[c].tried = << "e1" >>

(* C12, first part: a call whose endpoint_pref names a configured endpoint *)
(* makes its first attempt on that endpoint.                               *)
C12_PrefFirst ==
    [][ \A c \in Slots, r \in Requests :
          ( /\ Inference(c, r)
            /\ ~CacheHit(CacheKey(r))
            /\ HasPref(r)
            /\ PrefName(r) \in EndpointNames )
          => calls'[c].tried = << PrefName(r) >> ]_vars

(* C12, second part: every later attempt goes to an endpoint the Selector  *)
(* returns for the endpoints tried so far, or ends the call if it returns  *)
(* none.                                                                   *)
C12_LaterAttemptsSelect ==
    [][ \A c \in Slots :
          Wake(c)
          => LET old == calls[c].tried
                 new == calls'[c].tried
             IN  \E ep \in _select_endpoint(circuit_states, old) :
                    IF ep = NoEndpoint
                    THEN new = old /\ calls'[c].result = ErrUnavailable
                    ELSE new = Append(old, ep.name) /\ ep.name \notin Range(old) ]_vars

(* C12, third part: an endpoint_pref naming no configured endpoint leaves  *)
(* the first attempt to the Selector.                                      *)
C12_UnknownPrefSelects ==
    [][ \A c \in Slots, r \in Requests :
          ( /\ Inference(c, r)
            /\ ~CacheHit(CacheKey(r))
            /\ HasPref(r)
            /\ PrefName(r) \notin EndpointNames )
          => \E ep \in _select_endpoint(circuit_states, << >>) :
                IF ep = NoEndpoint
                THEN calls'[c].tried = << >> /\ calls'[c].result = ErrUnavailable
                ELSE calls'[c].tried = << ep.name >> ]_vars

(* C12: when metadata.endpoint_pref names a configured endpoint, the first *)
(* transport attempt of the inference call goes to that endpoint           *)
(* regardless of weights; the preference is consulted on the first attempt *)
(* only (later attempts use the Selector with the already-tried endpoints  *)
(* excluded), and an endpoint_pref naming no configured endpoint falls     *)
(* back to the Selector.                                                   *)
C12_PreferenceFirstAttemptOnly ==
    /\ C12_PrefFirst
    /\ C12_LaterAttemptsSelect
    /\ C12_UnknownPrefSelects

C12_Witness ==
    \E c \in Slots :
        /\ EndpointNames = { "e1", "e2" }
        /\ HasPref(calls[c].req)
        /\ PrefName(calls[c].req) = "e2"
        /\ EndpointByName("e2").weight > EndpointByName("e1").weight
        /\ calls[c].tried = << "e2", "e1" >>
        /\ calls[c].pc = "transport"

(* a step in which call c starts a transport call *)
Dispatches(c) ==
    /\ calls'[c].pc = "transport"
    /\ Len(calls'[c].tried) = Len(Live[c].tried) + 1

(* C13: a caller-supplied preferred endpoint is used only if its circuit   *)
(* is not OPEN: no inference call sends a transport request to an endpoint *)
(* whose circuit is OPEN at the moment the endpoint is chosen, even when   *)
(* endpoint_pref names it.                                                 *)
C13_NeverDispatchesToOpen ==
    [][ \A c \in Slots :
          Dispatches(c) => circuit_states[calls'[c].endpoint] # "open" ]_vars

(* C14: get_metrics returns a point-in-time copy: the counters in a value  *)
(* it returned do not change when later dispatch calls record further      *)
(* metrics, and the returned value satisfies                               *)
(* request_count = success_count + error_count.                            *)
C14_SnapshotIsCopy ==
    held.ref # "none"
    => \A n \in EndpointNames :
          /\ HeldCounters[n] = held.at_return[n]
          /\ HeldCounters[n].request_count
               = HeldCounters[n].success_count + HeldCounters[n].error_count

(* C15: if an inference call is cancelled while its transport call is in   *)
(* flight, that attempt is recorded as a failure: the endpoint's           *)
(* request_count and error_count are incremented and circuit failure       *)
(* handling is applied.  (A call cancelled before its first transport call *)
(* starts has run no code of the router: it has no step here.)             *)
C15_CancelCountsAsFailure ==
    [][ \A c \in Slots :
          ( Cancel(c) /\ calls[c].pc = "transport" )
          => LET n == calls[c].endpoint
                 cb == _handle_failure(CB, n)
             IN  /\ metrics' = _update_metrics(metrics, n, FALSE)
                 /\ circuit_states' = cb.circuit_states
                 /\ failure_counts' = cb.failure_counts
                 /\ last_failure_time' = cb.last_failure_time ]_vars

(* C16, first part: no step of a health_check sweep changes metrics or the *)
(* cache.                                                                  *)
C16_SweepKeepsMetricsAndCache ==
    [][ ( HealthCheck \/ \E is_healthy \in BOOLEAN : ProbeReturn(is_healthy) )
        => UNCHANGED <<metrics, cache>> ]_vars

(* no circuit is HALF_OPEN and no OPEN circuit has exceeded recovery_timeout *)
Quiet ==
    \A n \in EndpointNames :
        /\ circuit_states[n] # "half-open"
        /\ ~( /\ circuit_states[n] = "open"
              /\ now - last_failure_time[n] > config.recovery_timeout )

(* C16, second part: a sweep started in a quiet state runs to its end      *)
(* without probing and leaves the circuit breaker as it was, so the state  *)
(* is quiet again for the next sweep.                                      *)
C16_QuietSweepChangesNothing ==
    [][ ( HealthCheck /\ Quiet )
        => /\ UNCHANGED <<circuit_states, failure_counts, last_failure_time>>
           /\ hc' = hc ]_vars

(* C16: a health_check sweep never changes metrics or the cache, and a     *)
(* sweep run in a state where no circuit is HALF_OPEN and no OPEN circuit  *)
(* has exceeded recovery_timeout leaves all circuit states, failure counts *)
(* and last_failure_times unchanged, however many times it is repeated.    *)
C16_SweepFrame == C16_SweepKeepsMetricsAndCache /\ C16_QuietSweepChangesNothing

C16_Witness ==
    /\ EndpointNames = { "e1", "e2" }
    /\ hc.pc = "probing"
    /\ hc.idx = 2
    /\ circuit_states["e1"] = "open"
    /\ now - last_failure_time["e1"] <= config.recovery_timeout
    /\ metrics["e1"].error_count >= 1
    /\ metrics["e2"].error_count >= 1
    /\ DOMAIN cache # {}

(* C17: under any interleaving of inference calls and health_check sweeps, *)
(* every change of an endpoint's circuit state is one of CLOSED->OPEN      *)
(* (failure count reached failure_threshold), OPEN->HALF_OPEN              *)
(* (recovery_timeout elapsed), HALF_OPEN->CLOSED or HALF_OPEN->OPEN; in    *)
(* particular a circuit never goes from OPEN directly to CLOSED and never  *)
(* from CLOSED to OPEN with a failure count below failure_threshold.       *)
C17_LegalTransitions ==
    [][ \A n \in EndpointNames :
          circuit_states'[n] # circuit_states[n]
          => \/ /\ circuit_states[n] = "closed"
                /\ circuit_states'[n] = "open"
                /\ failure_counts'[n] >= config.failure_threshold
             \/ /\ circuit_states[n] = "open"
                /\ circuit_states'[n] = "half-open"
                /\ now - last_failure_time[n] > config.recovery_timeout
             \/ /\ circuit_states[n] = "half-open"
                /\ circuit_states'[n] \in { "closed", "open" } ]_vars

(* C19: the cache is read before every dispatch attempt of an inference    *)
(* call: if a concurrent call with the same fingerprint wrote the cache    *)
(* while this call was suspended, this call's next attempt returns the     *)
(* cached response instead of invoking the transport again.                *)
C19_CacheReadBeforeEveryAttempt ==
    [][ \A c \in Slots :
          ( Wake(c) /\ CacheHit(CacheKey(calls[c].req)) )
          => /\ calls'[c].pc = "done"
             /\ calls'[c].result = cache[CacheKey(calls[c].req)].response
             /\ calls'[c].tried = calls[c].tried ]_vars

(* the value health_check returns (lines 372-378) in a step that ends it *)
HealthCheckResult ==
    Snapshot([ circuit_states    |-> circuit_states',
               failure_counts    |-> failure_counts',
               last_failure_time |-> last_failure_time' ])

(* C20: after an endpoint's circuit has been OPEN for longer than          *)
(* recovery_timeout, the next health_check call returns a result that      *)
(* reports that endpoint in state half-open; the circuit is reported       *)
(* closed only by a further health_check call on a healthy endpoint.       *)
(* The endpoint probed last by a sweep was moved to HALF_OPEN by that      *)
(* sweep.                                                                  *)
C20_FirstSweepReportsHalfOpen ==
    [][ \A is_healthy \in BOOLEAN :
          ( ProbeReturn(is_healthy) /\ hc'.pc = "idle" )
          => HealthCheckResult[config.endpoints[hc.idx].name].state = "half-open" ]_vars

(* C21, the entries: every cache entry holds a provider response and its   *)
(* fingerprint is that of a request a call was served for.                 *)
C21_EntriesAreResponses ==
    \A k \in DOMAIN cache :
        /\ cache[k].response \in Responses
        /\ cache[k].response \notin { ErrUnavailable, ErrExhausted }
        /\ \E r \in served : CacheKey(r) = k

(* C21, the writes: the cache changes only in the step in which a          *)
(* transport call of an inference call returns a response, and the entry   *)
(* written is that response under that call's fingerprint.                 *)
C21_WrittenOnSuccessOnly ==
    [][ cache' # cache
        => \E c \in Slots, response \in Responses :
              /\ TransportSuccess(c, response)
              /\ cache'[CacheKey(calls[c].req)].response = response
              /\ \A k \in DOMAIN cache' :
                    k # CacheKey(calls[c].req) => k \in DOMAIN cache /\ cache'[k] = cache[k] ]_vars

(* C21: a cache entry is written only after a successful transport call:   *)
(* in every reachable state each cache entry's response is a response      *)
(* returned by a successful transport call of an inference call with that  *)
(* entry's fingerprint, so the router's own error results are never cached *)
(* and a failed call writes nothing to the cache.                          *)
C21_CacheHoldsOnlySuccesses == []C21_EntriesAreResponses /\ C21_WrittenOnSuccessOnly

C21_Witness ==
    /\ DOMAIN cache # {}
    /\ \E c \in Slots :
          /\ calls[c].pc = "done"
          /\ calls[c].path = "exhausted"
          /\ ~CacheHit(CacheKey(calls[c].req))

Min(a, b) == IF a <= b THEN a ELSE b

(* C22: within a single inference call no endpoint is contacted more than  *)
(* once: every endpoint the call has attempted, a preferred endpoint       *)
(* included, is excluded from all its later selections, so the call makes  *)
(* at most min(max_attempts, number of endpoints) transport invocations.   *)
C22_NoEndpointTwice ==
    \A c \in Slots :
        LET tried == calls[c].tried
        IN  /\ \A i \in DOMAIN tried, j \in DOMAIN tried :
                  i # j => tried[i] # tried[j]
            /\ Len(tried) <= Min(config.max_attempts, Len(config.endpoints))

C22_Witness ==
    \E c \in Slots :
        /\ HasPref(calls[c].req)
        /\ calls[c].tried = << "e2", "e1" >>
        /\ calls[c].pc = "done"
        /\ calls[c].path = "exhausted"

(* C23, the invariant: a CLOSED circuit has a failure count strictly below *)
(* failure_threshold.                                                      *)
C23_ClosedBelowThreshold ==
    \A n \in EndpointNames :
        circuit_states[n] = "closed"
        => failure_counts[n] < config.failure_threshold

(* C23, the transitions: a step that takes a circuit into CLOSED leaves    *)
(* its failure count at 0.                                                 *)
C23_IntoClosedResets ==
    [][ \A n \in EndpointNames :
          ( circuit_states[n] # "closed" /\ circuit_states'[n] = "closed" )
          => failure_counts'[n] = 0 ]_vars

(* C23: in every reachable state (failure_threshold >= 1), an endpoint     *)
(* whose circuit is CLOSED has a failure count strictly below              *)
(* failure_threshold, and every transition into CLOSED leaves the failure  *)
(* count at 0.                                                             *)
C23_ClosedCountInvariant == []C23_ClosedBelowThreshold /\ C23_IntoClosedResets

C23_Witness ==
    \E n \in EndpointNames :
        /\ circuit_states[n] = "closed"
        /\ last_failure_time[n] > 0
        /\ failure_counts[n] = 1
        /\ config.failure_threshold = 2

(* the endpoint the suspended health_check is probing *)
ProbedName == config.endpoints[hc.idx].name

(* C24: when health_check runs concurrently with inference calls, a probe  *)
(* outcome changes an endpoint's circuit only if that circuit is still     *)
(* HALF_OPEN when the outcome is applied: a circuit that a concurrent      *)
(* successful dispatch closed during the probe is not OPENed by a failed   *)
(* probe, and a circuit that a concurrent failed dispatch re-opened during *)
(* the probe is not CLOSED by a successful probe.                          *)
C24_ProbeAppliesToHalfOpenOnly ==
    [][ \A is_healthy \in BOOLEAN :
          ( /\ ProbeReturn(is_healthy)
            /\ circuit_states[ProbedName] # "half-open" )
          => /\ circuit_states'[ProbedName] = circuit_states[ProbedName]
             /\ failure_counts'[ProbedName] = failure_counts[ProbedName]
             /\ last_failure_time'[ProbedName] = last_failure_time[ProbedName] ]_vars

(* C25: two inference requests share a cache entry only if they have the   *)
(* same model_type, the same data and the same metadata: a call answered   *)
(* from the cache receives a response stored for its own request, never    *)
(* one stored for a request differing in any of the three.                 *)
C25_CacheEntryPerRequest ==
    [][ \A c \in Slots, r \in Requests :
          ( Inference(c, r) /\ CacheHit(CacheKey(r)) ) => r \in served ]_vars

(* C26: if health_check is invoked again and again (weak fairness, time    *)
(* advancing) and an endpoint's health probes succeed from some point on,  *)
(* then every circuit of that endpoint that is OPEN eventually becomes     *)
(* CLOSED, even when no inference call is ever dispatched to it.           *)
C26_OpenEventuallyClosed ==
    \A n \in LiveNames :
        ( circuit_states[n] = "open" ) ~> ( circuit_states[n] = "closed" )

C26_Witness ==
    \E n \in LiveNames :
        /\ circuit_states[n] = "closed"
        /\ last_failure_time[n] >= SettleTime - 1
        /\ metrics[n].success_count = 0
        /\ hc.pc = "idle"

====
